---- MODULE Spec2Model ----
(***************************************************************************)
(* Model of server/services/aiProvider.ts: the AI-provider fallback        *)
(* orchestration (generateLatex, modifyLatex, callProviderWithModel,       *)
(* determineProviderChain), the provider adapters with Groq's token        *)
(* budget, and the rate-limit cool-down timers.                            *)
(*                                                                         *)
(* Requests are async functions on one event loop.  An action is one task  *)
(* of the loop: a request runs from its start, or from the arrival of the  *)
(* network response it awaits, to its next network call or its return; the *)
(* awaits on promises that are already settled (an adapter that threw      *)
(* before its network call, an adapter that returned) resume in the same   *)
(* task, so no other request runs in between.                              *)
(***************************************************************************)
EXTENDS Integers, Sequences, FiniteSets, TLC

\* ------------------------------------------------------------------ bounds
MaxRequests == 2
MaxFaults == 2
\* the cool-down lasts CooldownTicks steps of the model's clock
CooldownTicks == 2

\* the longest model text given to the extractor on its own
MaxTextLen == 5

\* the request slots of the concurrent specification
Requests == 1..MaxRequests
\* the one slot of the sequential specification: a request at a time
SeqRequests == {1}

\* ------------------------------------------------- static provider tables
\* keys of the providerStatus object literal
StatusKeys ==
  {"openai", "anthropic", "groq", "together", "huggingface", "fireworks", "openrouter"}

\* Object.entries(providers): insertion order of the providers object literal
ProviderOrder ==
  <<"openai", "anthropic", "groq", "together", "huggingface", "openrouter">>

\* providers[p].models: Object.keys order of each models literal
models ==
  [ openai      |-> <<"gpt-4o", "gpt-3.5-turbo">>,
    anthropic   |-> <<"claude-3-7-sonnet-20250219", "claude-3-haiku-20240307">>,
    groq        |-> <<"llama3-8b-8192", "mixtral-8x7b-32768">>,
    together    |-> <<"mistral-7b-instruct">>,
    huggingface |-> <<"HuggingFaceH4/zephyr-7b-beta">>,
    openrouter  |-> <<"google/gemini-pro", "anthropic/claude-3-sonnet", "openai/gpt-4">> ]

Range(s) == {s[i] : i \in 1..Len(s)}

Providers == Range(ProviderOrder)

\* the default priority inside determineProviderChain
defaultChain ==
  <<"groq", "together", "huggingface", "anthropic", "openai", "openrouter">>

MAX_TOKENS == 1000000
MaxResponseTokens == 4000

\* words of the imported LATEX_SYSTEM_PROMPT (its text is outside this file)
SystemPromptWords == 100
\* prompt.split(/\s+/).length of the prompts sent by the modelled requests
PromptWords == 384003

\* ------------------------------------------------------------ input sets
\* model text is a sequence of tokens: FENCE three backticks, LATEX the word
\* latex, WS one whitespace character, DOCCLASS \documentclass, ENDDOC
\* \end{document}, x any other character
TextAlphabet == {"FENCE", "LATEX", "WS", "DOCCLASS", "ENDDOC", "x"}
\* every text of at most MaxTextLen tokens
AllTexts == UNION {[1..n -> TextAlphabet] : n \in 0..MaxTextLen}

\* the response texts drawn for the provider calls
Texts ==
  { <<"FENCE", "LATEX", "WS", "x", "WS", "FENCE">>,
    <<"FENCE", "x", "DOCCLASS", "ENDDOC", "FENCE">> }

\* response.data.usage?.total_tokens; 0 stands for an absent (falsy) value
UsageReports == {0, 600000}
ConcurrentUsageReports == {0}
ConcurrentTexts == { <<"FENCE", "LATEX", "WS", "x", "WS", "FENCE">> }

\* the six markers of isSpecialCreditCardAssignment
Markers ==
  {"Week 5 - Random Testing", "Bug 1", "887976483324347", "695746924442263",
   "Bug 2", "4045667666731919"}
\* the sizes up to which the counts of isLaTeXDocument are drawn
MaxBackslashes == 6
MaxPatterns == 2
\* content is modelled by what preparePrompt reads of it: which text it is
\* (id), whether it is empty or only white space, the markers it includes,
\* whether it includes \documentclass, how many backslashes it has and how
\* many of the latexPatterns match it (every match starts at a backslash of
\* its own, and \documentclass is one of the patterns)
Content(id, markers) ==
  [id |-> id, blank |-> FALSE, markers |-> markers, docclass |-> FALSE,
   backslashes |-> 0, patterns |-> 0]
Contents == { Content("a", {}), Content("a", Markers \ {"Bug 2"}), Content("a", Markers) }
PromptContents ==
  { c \in [id : {"a", "b"}, blank : BOOLEAN,
           markers : { {}, Markers \ {"Bug 2"}, Markers }, docclass : BOOLEAN,
           backslashes : 0..MaxBackslashes, patterns : 0..MaxPatterns] :
      /\ c.patterns <= c.backslashes
      /\ c.docclass => c.patterns >= 1
      /\ c.blank => c.markers = {} /\ c.backslashes = 0 }
DocumentTypes == {"article", "report"}
\* options is absent ("none") or an object whose two fields are each
\* undefined, true or false
NoOptions == [present |-> FALSE, splitTables |-> "undefined", useMath |-> "undefined"]
PromptOptions ==
  {NoOptions} \cup [present : {TRUE}, splitTables : {"undefined", "true", "false"},
                    useMath : {"undefined", "true", "false"}]

\* existing LaTeX given to modifyLatex is a token sequence: MAKETITLE is
\* \maketitle, DATE is \date{ , x any other text
\* the calls of modifyLatex drawn: latexContent, whether notes mention a date,
\* isOmit, and whether options is an object or null
ModifyInputs ==
  { [doc |-> <<"x", "MAKETITLE", "x", "MAKETITLE">>, notesDate |-> TRUE, isOmit |-> TRUE,
     options |-> "object"],
    [doc |-> <<"x", "MAKETITLE", "x">>, notesDate |-> TRUE, isOmit |-> FALSE,
     options |-> "object"],
    [doc |-> <<"DATE", "MAKETITLE">>, notesDate |-> TRUE, isOmit |-> TRUE,
     options |-> "object"],
    [doc |-> <<"x">>, notesDate |-> FALSE, isOmit |-> TRUE, options |-> "object"],
    [doc |-> <<"x", "MAKETITLE">>, notesDate |-> TRUE, isOmit |-> TRUE,
     options |-> "null"],
    [doc |-> <<"x">>, notesDate |-> FALSE, isOmit |-> FALSE, options |-> "null"] }

AllModels == UNION {Range(models[p]) : p \in Providers}
\* options.model: absent, the default model of a chain provider, a non-default
\* model, a name no provider owns
OverrideModels ==
  {"none", "llama3-8b-8192", "claude-3-haiku-20240307", "no-such-model"}

ConcurrentOverrideModels == {"none", "llama3-8b-8192"}

\* process.env at start: the providers whose API key is set
KeyConfigs ==
  { {}, {"together", "fireworks"}, {"groq", "together", "openai"}, StatusKeys }
\* the same for the concurrent specification
ConcurrentKeyConfigs == { {"groq", "together"} }

\* ----------------------------------------------------------------- errors
\* the errors an adapter call can end with
\*   notconfigured  Error: <name> API not configured
\*   budget         Error: Groq spending limit exceeded. Using fallback providers.
\*   unknownmodel   Error: Model <m> not found in any provider
\*   http500        a non-2xx response other than 429
\*   http429        a response with status 429
\*   ratelimitmsg   an error without response whose message contains: rate limit
\*   malformed      a 2xx body without choices[0] (TypeError)
NetErrors == {"http500", "http429", "ratelimitmsg", "malformed"}
\* the network errors drawn in the concurrent specification
ConcurrentNetErrors == {"http500", "http429"}
PreflightErrors == {"notconfigured", "budget", "unknownmodel"}
Errors == NetErrors \cup PreflightErrors

\* errorObj.response?.status === 429
ResponseStatus429(e) == e = "http429"
\* typeof errorObj.message === string && errorObj.message.includes(rate limit)
MessageIncludesRateLimit(e) == e = "ratelimitmsg"

NoLatex == <<"undefined">>
NoResult == [success |-> FALSE, latex |-> NoLatex, error |-> "none"]

GenerateFailedMessage == "All AI providers failed to generate LaTeX. Please try again later."
ModifyFailedMessage ==
  "All available AI providers failed to process your request. Please try again later."
\* error.message of the TypeError thrown by options.model when options is null
NullOptionsMessage == "Cannot read properties of null (reading 'model')"

\* ------------------------------------------------------ response extractor
Min(S) == CHOOSE i \in S : \A j \in S : i <= j

\* String.prototype.trim on token sequences
RECURSIVE TrimLeft(_)
TrimLeft(t) == IF t # <<>> /\ Head(t) = "WS" THEN TrimLeft(Tail(t)) ELSE t
RECURSIVE TrimRight(_)
TrimRight(t) ==
  IF t # <<>> /\ t[Len(t)] = "WS" THEN TrimRight(SubSeq(t, 1, Len(t) - 1)) ELSE t
Trim(t) == TrimRight(TrimLeft(t))

MatchesAt(t, pat, i) ==
  /\ i + Len(pat) - 1 <= Len(t)
  /\ \A n \in 1..Len(pat) : t[i + n - 1] = pat[n]

\* the position after the longest run of whitespace that starts at a
SkipWS(t, a) == Min({q \in a..(Len(t) + 1) : q = Len(t) + 1 \/ t[q] # "WS"})

\* the tail of both fence patterns, \s* and the closing fence, matches at k
ClosesAt(t, k) == LET f == SkipWS(t, k) IN f <= Len(t) /\ t[f] = "FENCE"

\* response.match(/<open>\s*([\s\S]*?)\s*<fence>/): the leftmost match, with a
\* greedy \s* after the opener and the shortest group that lets the tail match
FenceMatch(t, open) ==
  LET cand(i) ==
        /\ MatchesAt(t, open, i)
        /\ \E k \in SkipWS(t, i + Len(open))..Len(t) : ClosesAt(t, k)
      S == {i \in 1..Len(t) : cand(i)}
  IN IF S = {} THEN [found |-> FALSE, group |-> <<>>]
     ELSE LET i == Min(S)
              q == SkipWS(t, i + Len(open))
              k == Min({n \in q..Len(t) : ClosesAt(t, n)})
          IN [found |-> TRUE, group |-> SubSeq(t, q, k - 1)]

Positions(t, tok) == {i \in 1..Len(t) : t[i] = tok}

\* an extractor whose span pattern is greedy: it runs to the last \end{document}
extractLatexFromResponse_Greedy(t) ==
  LET match == FenceMatch(t, <<"FENCE", "LATEX">>)
      codeMatch == FenceMatch(t, <<"FENCE">>)
      dcs == Positions(t, "DOCCLASS")
      startPos == Min(dcs)
      ends == {j \in Positions(t, "ENDDOC") : j > startPos}
      last == CHOOSE j \in ends : \A k \in ends : k <= j
  IN IF match.found /\ match.group # <<>> THEN Trim(match.group)
     ELSE IF codeMatch.found /\ codeMatch.group # <<>> THEN Trim(codeMatch.group)
     ELSE IF dcs # {} /\ ends # {} THEN Trim(SubSeq(t, startPos, last))
     ELSE IF dcs # {} THEN Trim(SubSeq(t, startPos, Len(t)))
     ELSE Trim(t)

\* an extractor whose substring starts one position after \documentclass
extractLatexFromResponse_OffByOne(t) ==
  LET match == FenceMatch(t, <<"FENCE", "LATEX">>)
      codeMatch == FenceMatch(t, <<"FENCE">>)
      dcs == Positions(t, "DOCCLASS")
      startPos == Min(dcs)
      ends == {j \in Positions(t, "ENDDOC") : j > startPos}
  IN IF match.found /\ match.group # <<>> THEN Trim(match.group)
     ELSE IF codeMatch.found /\ codeMatch.group # <<>> THEN Trim(codeMatch.group)
     ELSE IF dcs # {} /\ ends # {} THEN Trim(SubSeq(t, startPos, Min(ends)))
     ELSE IF dcs # {} THEN Trim(SubSeq(t, startPos + 1, Len(t)))
     ELSE Trim(t)

\* extractLatexFromResponse(response): the five rules in their order
extractLatexFromResponse(t) ==
  LET match == FenceMatch(t, <<"FENCE", "LATEX">>)
      codeMatch == FenceMatch(t, <<"FENCE">>)
      dcs == Positions(t, "DOCCLASS")
      startPos == Min(dcs)
      ends == {j \in Positions(t, "ENDDOC") : j > startPos}
  IN IF match.found /\ match.group # <<>> THEN Trim(match.group)
     ELSE IF codeMatch.found /\ codeMatch.group # <<>> THEN Trim(codeMatch.group)
     ELSE IF dcs # {} /\ ends # {} THEN Trim(SubSeq(t, startPos, Min(ends)))
     ELSE IF dcs # {} THEN Trim(SubSeq(t, startPos, Len(t)))
     ELSE Trim(t)

\* -------------------------------------------------------- model listing
\* the members of SubscriptionTier named by tierAccess
Tiers == {"Free", "Basic", "Pro", "Power"}

\* providers[p].models[m].tier
modelTier ==
  ("gpt-4o" :> "Power") @@ ("gpt-3.5-turbo" :> "Basic") @@
  ("claude-3-7-sonnet-20250219" :> "Pro") @@ ("claude-3-haiku-20240307" :> "Basic") @@
  ("llama3-8b-8192" :> "Free") @@ ("mixtral-8x7b-32768" :> "Free") @@
  ("mistral-7b-instruct" :> "Free") @@ ("HuggingFaceH4/zephyr-7b-beta" :> "Free") @@
  ("google/gemini-pro" :> "Basic") @@ ("anthropic/claude-3-sonnet" :> "Pro") @@
  ("openai/gpt-4" :> "Power")

\* a tierAccess in which a Basic user does not get the Free models
tierAccess_BasicOnly ==
  [Free |-> <<"Free">>, Basic |-> <<"Basic">>, Pro |-> <<"Free", "Basic", "Pro">>,
   Power |-> <<"Free", "Basic", "Pro", "Power">>]

\* the tierAccess literal of getAvailableModels
tierAccess ==
  [Free |-> <<"Free">>, Basic |-> <<"Free", "Basic">>,
   Pro |-> <<"Free", "Basic", "Pro">>, Power |-> <<"Free", "Basic", "Pro", "Power">>]

\* ------------------------------------------------------ prompt preparation
\* a detector that never recognises the assignment
isSpecialCreditCardAssignment_Never(content) == FALSE

isSpecialCreditCardAssignment(content) == \A m \in Markers : m \in content.markers

FORMATTED_CREDIT_CARD_LATEX == <<"DOCCLASS", "x", "ENDDOC">>

isLaTeXDocument(content) ==
  IF content.blank THEN FALSE
  ELSE IF content.docclass /\ content.backslashes > 3 THEN TRUE
  ELSE IF content.patterns >= 2 THEN TRUE
  ELSE content.backslashes > 5

CREDIT_CARD_VALIDATION_PROMPT == [fixed |-> "CREDIT_CARD_VALIDATION_PROMPT"]

\* no prompt is made when the direct response is returned
NoPrompt == [fixed |-> "none"]

\* the text that stands in for empty content
ExampleContent == Content("Generate a simple example document.", {})

YesNo(v) == IF v = "true" THEN "Yes" ELSE "No"

\* the lines of the Options section (none when optionsText is empty)
OptionsText(options) ==
  IF ~options.present THEN <<>>
  ELSE (IF options.splitTables # "undefined"
        THEN <<"Split Tables: " \o YesNo(options.splitTables)>> ELSE <<>>)
       \o (IF options.useMath # "undefined"
           THEN <<"Use Math Mode: " \o YesNo(options.useMath)>> ELSE <<>>)

\* a composition that writes one document type whatever it is given
ComposePrompt_NoType(content, documentType, options) ==
  [documentType |-> "article", userContent |-> content,
   options |-> OptionsText(options), instructions |-> "IMPORTANT INSTRUCTIONS"]

\* the prompt string preparePrompt builds for content that is neither special
\* nor LaTeX: its parts in order
ComposePrompt(content, documentType, options) ==
  [documentType |-> documentType, userContent |-> content,
   options |-> OptionsText(options), instructions |-> "IMPORTANT INSTRUCTIONS"]

preparePrompt(content, documentType, options) ==
  LET c == IF content.blank THEN ExampleContent ELSE content
  IN IF isSpecialCreditCardAssignment(c)
     THEN [bypassed |-> TRUE, directResponse |-> FORMATTED_CREDIT_CARD_LATEX,
           prompt |-> NoPrompt]
     ELSE [bypassed |-> FALSE, directResponse |-> NoLatex,
           prompt |-> IF isLaTeXDocument(c) THEN CREDIT_CARD_VALIDATION_PROMPT
                      ELSE ComposePrompt(c, documentType, options)]

\* Math.ceil(n * 1.3)
CeilTimes13(n) == (13 * n + 9) \div 10

\* estimatedRequestTokens of the Groq adapter
estimatedRequestTokens ==
  CeilTimes13(SystemPromptWords) + CeilTimes13(PromptWords) + MaxResponseTokens

VARIABLES
  apiKeys,          \* providers whose credential is present (fixed at process start)
  providerStatus,   \* [StatusKeys -> [available, rateLimited, lastError]]
  totalTokensUsed,  \* providers.groq.totalTokensUsed
  timers,           \* per provider, the pending setTimeout callbacks: ticks left
  req,              \* per request slot: the position and locals of the async call
  faults,           \* network failures injected so far (bounded by MaxFaults)
  io                \* the latest call of a synchronous function: input and output

vars == <<apiKeys, providerStatus, totalTokensUsed, timers, req, faults, io>>

NoArgs == [fn |-> "none"]
NoIo == [fn |-> "none"]

IdleReq ==
  [ pc |-> "idle", kind |-> "none", via |-> "none",
    chain |-> <<>>, idx |-> 0, provider |-> "none", model |-> "none",
    result |-> NoResult,
    args |-> NoArgs,   \* the arguments of the call, until the next task of the request
    calls |-> <<>> ]   \* calls: history of the adapter invocations of the request

InitFor(R, configs) ==
  /\ apiKeys \in configs
  /\ providerStatus =
       [p \in StatusKeys |->
          [available |-> p \in apiKeys, rateLimited |-> FALSE, lastError |-> "null"]]
  /\ totalTokensUsed = 0
  /\ timers = [p \in StatusKeys |-> <<>>]
  /\ req = [r \in R |-> IdleReq]
  /\ faults = 0
  /\ io = NoIo

Init == InitFor(SeqRequests, KeyConfigs)

InitConcurrent == InitFor(Requests, ConcurrentKeyConfigs)

\* ------------------------------------------------------------ chain selector
\* a selector that does not filter
determineProviderChain_Unfiltered == defaultChain

\* determineProviderChain(): defaultChain.filter(p => providerStatus[p].available)
determineProviderChain ==
  SelectSeq(defaultChain, LAMBDA p : providerStatus[p].available)

\* getAvailableModels(userTier): the outer loop over Object.entries(providers)
\* from position i on, the inner loop over the models of each provider that
\* is available
RECURSIVE CollectModels(_, _)
CollectModels(userTier, i) ==
  IF i > Len(ProviderOrder) THEN <<>>
  ELSE LET p == ProviderOrder[i]
           entries == [n \in 1..Len(models[p]) |->
                         [id |-> models[p][n], provider |-> p,
                          tier |-> modelTier[models[p][n]]]]
           listed == SelectSeq(entries,
                               LAMBDA m : \E k \in 1..Len(tierAccess[userTier]) :
                                            tierAccess[userTier][k] = m.tier)
       IN (IF ~providerStatus[p].available THEN <<>> ELSE listed)
            \o CollectModels(userTier, i + 1)

getAvailableModels(userTier) == CollectModels(userTier, 1)

\* --------------------------------------------------------------- adapters
\* an adapter without the budget check
AdapterPreflight_NoBudget(p, tok) == IF p \notin apiKeys THEN "notconfigured" ELSE "none"

\* an adapter without the credential check
AdapterPreflight_NoCredential(p, tok) ==
  IF p = "groq" /\ tok + estimatedRequestTokens > MAX_TOKENS THEN "budget" ELSE "none"

\* the checks an adapter makes before its network call (the credential, and
\* for Groq the token budget), with tok tokens used so far
AdapterPreflight(p, tok) ==
  IF p \notin apiKeys THEN "notconfigured"
  ELSE IF p = "groq" /\ tok + estimatedRequestTokens > MAX_TOKENS
       THEN "budget"
  ELSE "none"

\* the cool-down window of the latest rate-limit failure of p is still running
Cooling(p) == timers[p] # <<>> /\ timers[p][Len(timers[p])] > 0

\* the history entry of an adapter invocation: what was called and how, whether
\* a network call was issued, the rateLimited flag and the cool-down at that
\* moment, and the outcome (with the LaTeX the adapter returned)
Call(p, m, via, st, e) ==
  [provider |-> p, model |-> m, via |-> via, net |-> e = "none",
   limited |-> st[p].rateLimited, cooling |-> Cooling(p),
   out |-> IF e = "none" THEN "pending" ELSE "failed", err |-> e,
   latex |-> NoLatex]

\* the history entry of an explicit model that no provider owns
UnknownModelCall(m) ==
  [provider |-> "none", model |-> m, via |-> "override", net |-> FALSE,
   limited |-> FALSE, cooling |-> FALSE, out |-> "failed", err |-> "unknownmodel",
   latex |-> NoLatex]

\* providers[p].generateLatex(prompt, m) has passed its checks and awaits its
\* network call
AwaitNetwork(rq, p, m, via, j, st) ==
  [rq EXCEPT !.pc = "netcall", !.via = via, !.idx = j, !.provider = p, !.model = m,
             !.calls = Append(@, Call(p, m, via, st, "none"))]

\* what an adapter returns for the text of a successful response
AdapterReturn(text) == extractLatexFromResponse(text)

\* the Groq adapter after its network call: the token accounting on a parsed
\* response, the mark at the limit on a 429
GroqAccounting(p, out, usage) ==
  IF p # "groq" THEN totalTokensUsed
  ELSE IF out \in {"ok", "malformed"}
       THEN totalTokensUsed + (IF usage # 0 THEN usage ELSE estimatedRequestTokens)
  ELSE IF out = "http429" THEN MAX_TOKENS
  ELSE totalTokensUsed

\* ----------------------------------------------------------- orchestrator
\* a skip test that looks at the availability only
Skipped_AvailabilityOnly(st, p) == ~st[p].available

\* the skip test at the head of the loop body, on the status st
Skipped(st, p) == ~st[p].available \/ st[p].rateLimited

IsRateLimitError(e) == ResponseStatus429(e) \/ MessageIncludesRateLimit(e)

\* a catch block that records the failure on every provider
RecordFailure_Everywhere(st, p, e) ==
  [q \in DOMAIN st |->
     [st[q] EXCEPT !.lastError = e,
                   !.rateLimited = IF IsRateLimitError(e) THEN TRUE ELSE @]]

\* a catch block that takes every failure for a rate limit
RecordFailure_AlwaysLimits(st, p, e) ==
  [st EXCEPT ![p].lastError = e, ![p].rateLimited = TRUE]

\* the catch block of the chain loop of generateLatex (its timer apart)
RecordFailure(st, p, e) ==
  [st EXCEPT ![p].lastError = e,
             ![p].rateLimited = IF IsRateLimitError(e) THEN TRUE ELSE @]

\* the catch block of the chain loop, by function: modifyLatex only logs
CatchChainError(kind, st, p, e) ==
  IF kind = "generate" THEN RecordFailure(st, p, e) ELSE st

Success(latex) == [success |-> TRUE, latex |-> latex, error |-> "none"]

\* a failure result that carries no message
Failure_NoMessage(kind) == [success |-> FALSE, latex |-> NoLatex, error |-> "none"]

\* return { success: false, error } when every attempt has failed
Failure(kind) ==
  [success |-> FALSE, latex |-> NoLatex,
   error |-> IF kind = "generate" THEN GenerateFailedMessage ELSE ModifyFailedMessage]

\* Walk with a catch block that gives up: the first failure ends the request
Walk_Abort(rq, from, st, tok) ==
  LET cands == {j \in from..Len(rq.chain) : ~Skipped(st, rq.chain[j])}
      p == rq.chain[Min(cands)]
      m == models[p][1]
      e == AdapterPreflight(p, tok)
      failed == [rq EXCEPT !.pc = "done", !.result = Failure(rq.kind)]
  IN IF from > 1 \/ cands = {} THEN [rq |-> failed, st |-> st]
     ELSE IF e = "none"
          THEN [rq |-> AwaitNetwork(rq, p, m, "chain", Min(cands), st), st |-> st]
     ELSE [rq |-> [failed EXCEPT !.calls = Append(@, Call(p, m, "chain", st, e))],
           st |-> CatchChainError(rq.kind, st, p, e)]

\* the for loop over providerChain from position from, run until an adapter
\* awaits its network call or the chain is exhausted; yields the request and
\* the provider status it leaves; tok is Groq's token count
RECURSIVE Walk(_, _, _, _)
Walk(rq, from, st, tok) ==
  IF from > Len(rq.chain)
  THEN [rq |-> [rq EXCEPT !.pc = "done", !.result = Failure(rq.kind)], st |-> st]
  ELSE LET p == rq.chain[from]
           m == models[p][1]
           e == AdapterPreflight(p, tok)
       IN IF Skipped(st, p) THEN Walk(rq, from + 1, st, tok)
          ELSE IF e = "none"
               THEN [rq |-> AwaitNetwork(rq, p, m, "chain", from, st), st |-> st]
          ELSE Walk([rq EXCEPT !.calls = Append(@, Call(p, m, "chain", st, e))],
                    from + 1, CatchChainError(rq.kind, st, p, e), tok)

\* const providerChain = determineProviderChain(), then the loop
WalkChain(rq, tok) ==
  Walk([rq EXCEPT !.chain = determineProviderChain], 1, providerStatus, tok)

\* the explicit model failed and the catch block gives up: the request fails
CatchModelError_GiveUp(rq, tok) ==
  [rq |-> [rq EXCEPT !.pc = "done", !.result = Failure(rq.kind)], st |-> providerStatus]

\* the catch block of the explicit model: log, fall through to the chain
CatchModelError(rq, tok) == WalkChain(rq, tok)

\* a successful call that does not return: the function goes on to the chain
ReturnSuccess_GoesOn(rq, latex) ==
  Walk([rq EXCEPT !.result = Success(latex),
                  !.chain = IF rq.via = "override" THEN determineProviderChain ELSE @],
       rq.idx + 1, providerStatus, totalTokensUsed')

\* return { success: true, latex } inside the try of a provider call
ReturnSuccess(rq, latex) ==
  [rq |-> [rq EXCEPT !.pc = "done", !.result = Success(latex)], st |-> providerStatus]

\* callProviderWithModel(model, prompt) inside the try of the explicit model:
\* the first provider of Object.entries(providers) that owns the model; an
\* unknown model or an adapter that throws before its network call falls
\* through to the chain
TryModel(rq, m) ==
  LET owners == {i \in 1..Len(ProviderOrder) : m \in Range(models[ProviderOrder[i]])}
      p == ProviderOrder[Min(owners)]
      e == AdapterPreflight(p, totalTokensUsed)
  IN IF owners = {}
     THEN CatchModelError([rq EXCEPT !.calls = Append(@, UnknownModelCall(m))],
                          totalTokensUsed)
     ELSE IF e = "none"
          THEN [rq |-> AwaitNetwork(rq, p, m, "override", 0, providerStatus),
                st |-> providerStatus]
     ELSE CatchModelError(
            [rq EXCEPT !.calls = Append(@, Call(p, m, "override", providerStatus, e))],
            totalTokensUsed)

\* a new request takes the lowest free slot
FreeSlot(r) == req[r].pc = "idle" /\ \A q \in 1..(r - 1) : req[q].pc # "idle"

\* generateLatex(content, documentType, {model}) from its call to its first
\* network call or its return
StartGenerate(r, content, model) ==
  /\ FreeSlot(r)
  /\ LET promptResult == preparePrompt(content, "article", NoOptions)
         rq == [IdleReq EXCEPT !.kind = "generate",
                               !.args = [fn |-> "generateLatex", content |-> content,
                                         model |-> model]]
         next == IF promptResult.bypassed
                 THEN [rq |-> [rq EXCEPT !.pc = "done",
                                         !.result = Success(promptResult.directResponse)],
                       st |-> providerStatus]
                 ELSE IF model # "none" THEN TryModel(rq, model)
                 ELSE WalkChain(rq, totalTokensUsed)
     IN /\ req' = [req EXCEPT ![r] = next.rq]
        /\ providerStatus' = next.st
  /\ UNCHANGED <<apiKeys, totalTokensUsed, timers, faults, io>>

Includes(t, tok) == \E i \in 1..Len(t) : t[i] = tok

\* a replace that works on the last \maketitle
InsertDate_Last(t) ==
  LET i == CHOOSE n \in Positions(t, "MAKETITLE") :
             \A k \in Positions(t, "MAKETITLE") : k <= n
  IN SubSeq(t, 1, i - 1) \o <<"DATE", "RBRACE", "WS">> \o SubSeq(t, i, Len(t))

\* latexContent.replace(/\\maketitle/, ...): \date{} and a newline before the
\* first \maketitle
InsertDate(t) ==
  LET i == Min(Positions(t, "MAKETITLE"))
  IN SubSeq(t, 1, i - 1) \o <<"DATE", "RBRACE", "WS">> \o SubSeq(t, i, Len(t))

\* an outer catch that reports success
CatchOuter_Success(latexContent, message) ==
  [success |-> TRUE, latex |-> latexContent, error |-> message]

\* the outer catch of modifyLatex: the failure carries the original content
CatchOuter(latexContent, message) ==
  [success |-> FALSE, latex |-> latexContent, error |-> message]

\* modifyLatex(latexContent, notes, isOmit, options) from its call to its
\* first network call or its return; options is an object, whose model is
\* the parameter model, or null
StartModify(r, doc, notesDate, isOmit, options, model) ==
  /\ FreeSlot(r)
  /\ LET rq == [IdleReq EXCEPT !.kind = "modify",
                               !.args = [fn |-> "modifyLatex", latexContent |-> doc,
                                         notesDate |-> notesDate, isOmit |-> isOmit,
                                         options |-> options, model |-> model]]
         next == IF isOmit /\ notesDate /\ Includes(doc, "MAKETITLE")
                    /\ ~Includes(doc, "DATE")
                 THEN [rq |-> [rq EXCEPT !.pc = "done",
                                         !.result = Success(InsertDate(doc))],
                       st |-> providerStatus]
                 ELSE IF options = "null"
                 THEN [rq |-> [rq EXCEPT !.pc = "done",
                                 !.result = CatchOuter(doc, NullOptionsMessage)],
                       st |-> providerStatus]
                 ELSE IF model # "none" THEN TryModel(rq, model)
                 ELSE WalkChain(rq, totalTokensUsed)
     IN /\ req' = [req EXCEPT ![r] = next.rq]
        /\ providerStatus' = next.st
  /\ UNCHANGED <<apiKeys, totalTokensUsed, timers, faults, io>>

\* the request with the outcome of its network call entered in its history
Settled(rq, out, text) ==
  [rq EXCEPT !.args = NoArgs,
             !.calls[Len(rq.calls)].out = IF out = "ok" THEN "ok" ELSE "failed",
             !.calls[Len(rq.calls)].err = IF out = "ok" THEN "none" ELSE out,
             !.calls[Len(rq.calls)].latex =
                IF out = "ok" THEN AdapterReturn(text) ELSE NoLatex]

\* what every network response does: the fault count and the adapter's own
\* bookkeeping
Response(r, out, usage) ==
  /\ req[r].pc = "netcall"
  /\ out # "ok" => faults < MaxFaults
  /\ faults' = IF out = "ok" THEN faults ELSE faults + 1
  /\ totalTokensUsed' = GroqAccounting(req[r].provider, out, usage)

\* generateLatex: the response to the call of the explicit model arrives
GenerateOverrideResponds(r, out, text, usage) ==
  /\ req[r].kind = "generate" /\ req[r].via = "override"
  /\ Response(r, out, usage)
  /\ LET rq == Settled(req[r], out, text)
         next == IF out = "ok"
                 THEN ReturnSuccess(rq, AdapterReturn(text))
                 ELSE CatchModelError(rq, totalTokensUsed')
     IN /\ req' = [req EXCEPT ![r] = next.rq]
        /\ providerStatus' = next.st
  /\ UNCHANGED <<apiKeys, timers, io>>

\* generateLatex: the response to the call of a chain provider arrives
GenerateChainResponds(r, out, text, usage) ==
  /\ req[r].kind = "generate" /\ req[r].via = "chain"
  /\ Response(r, out, usage)
  /\ LET rq == Settled(req[r], out, text)
         p == rq.provider
         next == IF out = "ok"
                 THEN ReturnSuccess(rq, AdapterReturn(text))
                 ELSE Walk(rq, rq.idx + 1, RecordFailure(providerStatus, p, out),
                           totalTokensUsed')
     IN /\ req' = [req EXCEPT ![r] = next.rq]
        /\ providerStatus' = next.st
        /\ timers' = IF out # "ok" /\ IsRateLimitError(out)
                     THEN [timers EXCEPT ![p] = Append(@, CooldownTicks)]
                     ELSE timers
  /\ UNCHANGED <<apiKeys, io>>

\* modifyLatex: the response to the call of the explicit model arrives
ModifyOverrideResponds(r, out, text, usage) ==
  /\ req[r].kind = "modify" /\ req[r].via = "override"
  /\ Response(r, out, usage)
  /\ LET rq == Settled(req[r], out, text)
         next == IF out = "ok"
                 THEN ReturnSuccess(rq, extractLatexFromResponse(AdapterReturn(text)))
                 ELSE CatchModelError(rq, totalTokensUsed')
     IN /\ req' = [req EXCEPT ![r] = next.rq]
        /\ providerStatus' = next.st
  /\ UNCHANGED <<apiKeys, timers, io>>

\* modifyLatex: the response to the call of a chain provider arrives
ModifyChainResponds(r, out, text, usage) ==
  /\ req[r].kind = "modify" /\ req[r].via = "chain"
  /\ Response(r, out, usage)
  /\ LET rq == Settled(req[r], out, text)
         next == IF out = "ok"
                 THEN ReturnSuccess(rq, extractLatexFromResponse(AdapterReturn(text)))
                 ELSE Walk(rq, rq.idx + 1, providerStatus, totalTokensUsed')
     IN /\ req' = [req EXCEPT ![r] = next.rq]
        /\ providerStatus' = next.st
  /\ UNCHANGED <<apiKeys, timers, io>>

\* the caller has taken the result; the slot serves the next request
Return(r) ==
  /\ req[r].pc = "done"
  /\ req' = [req EXCEPT ![r] = IdleReq]
  /\ UNCHANGED <<apiKeys, providerStatus, totalTokensUsed, timers, faults, io>>

\* a callback that runs and leaves the flag as it is
TimerFires_KeepsFlag(p) ==
  /\ timers[p] # <<>> /\ Head(timers[p]) = 0
  /\ timers' = [timers EXCEPT ![p] = Tail(@)]
  /\ UNCHANGED <<apiKeys, providerStatus, totalTokensUsed, req, faults, io>>

\* the setTimeout callback of a cool-down: providerStatus[p].rateLimited = false
TimerFires(p) ==
  /\ timers[p] # <<>> /\ Head(timers[p]) = 0
  /\ providerStatus' = [providerStatus EXCEPT ![p].rateLimited = FALSE]
  /\ timers' = [timers EXCEPT ![p] = Tail(@)]
  /\ UNCHANGED <<apiKeys, totalTokensUsed, req, faults, io>>

\* the clock advances by one tick; a due timer fires before it moves on
Tick ==
  /\ \E p \in StatusKeys : timers[p] # <<>>
  /\ \A p \in StatusKeys : timers[p] # <<>> => Head(timers[p]) > 0
  /\ timers' = [p \in StatusKeys |-> [i \in 1..Len(timers[p]) |-> timers[p][i] - 1]]
  /\ UNCHANGED <<apiKeys, providerStatus, totalTokensUsed, req, faults, io>>

NextFor(R, outs, usages, texts, overrides) ==
  \/ \E r \in R, c \in Contents, m \in overrides : StartGenerate(r, c, m)
  \/ \E r \in R, i \in ModifyInputs, m \in overrides :
       StartModify(r, i.doc, i.notesDate, i.isOmit, i.options, m)
  \/ \E r \in R, out \in outs, t \in texts, u \in usages :
       GenerateOverrideResponds(r, out, t, u)
  \/ \E r \in R, out \in outs, t \in texts, u \in usages :
       GenerateChainResponds(r, out, t, u)
  \/ \E r \in R, out \in outs, t \in texts, u \in usages :
       ModifyOverrideResponds(r, out, t, u)
  \/ \E r \in R, out \in outs, t \in texts, u \in usages :
       ModifyChainResponds(r, out, t, u)
  \/ \E r \in R : Return(r)
  \/ \E p \in StatusKeys : TimerFires(p)
  \/ Tick

\* one request at a time, every kind of failure
Next == NextFor(SeqRequests, {"ok"} \cup NetErrors, UsageReports, Texts, OverrideModels)

Spec == Init /\ [][Next]_vars

\* concurrent requests on the shared provider state
NextConcurrent ==
  NextFor(Requests, {"ok"} \cup ConcurrentNetErrors, ConcurrentUsageReports,
          ConcurrentTexts, ConcurrentOverrideModels)

SpecConcurrent == InitConcurrent /\ [][NextConcurrent]_vars

\* requests on Groq alone, one more in flight than in SpecConcurrent
BudgetRequests == 1..(MaxRequests + 1)

InitBudget == InitFor(BudgetRequests, { {"groq"} })

BudgetModifyInput ==
  [doc |-> <<"x">>, notesDate |-> FALSE, isOmit |-> FALSE, options |-> "object"]

NextBudget ==
  \/ \E r \in BudgetRequests, m \in ConcurrentOverrideModels :
       StartGenerate(r, Content("a", {}), m)
  \/ \E r \in BudgetRequests, m \in ConcurrentOverrideModels :
       StartModify(r, BudgetModifyInput.doc, BudgetModifyInput.notesDate,
                   BudgetModifyInput.isOmit, BudgetModifyInput.options, m)
  \/ \E r \in BudgetRequests, out \in {"ok", "http429"}, t \in ConcurrentTexts :
       GenerateOverrideResponds(r, out, t, 0)
  \/ \E r \in BudgetRequests, out \in {"ok", "http429"}, t \in ConcurrentTexts :
       GenerateChainResponds(r, out, t, 0)
  \/ \E r \in BudgetRequests, out \in {"ok", "http429"}, t \in ConcurrentTexts :
       ModifyOverrideResponds(r, out, t, 0)
  \/ \E r \in BudgetRequests, out \in {"ok", "http429"}, t \in ConcurrentTexts :
       ModifyChainResponds(r, out, t, 0)
  \/ \E r \in BudgetRequests : Return(r)
  \/ \E p \in StatusKeys : TimerFires(p)
  \/ Tick

SpecBudget == InitBudget /\ [][NextBudget]_vars

\* the event loop runs a timer callback once its delay has passed, and time
\* passes: one request at a time, with the timers weakly fair
InitCooldown == InitFor(SeqRequests, ConcurrentKeyConfigs)

NextCooldown ==
  NextFor(SeqRequests, {"ok"} \cup ConcurrentNetErrors, ConcurrentUsageReports,
          ConcurrentTexts, ConcurrentOverrideModels)

SpecCooldown ==
  /\ InitCooldown /\ [][NextCooldown]_vars
  /\ WF_vars(Tick)
  /\ \A p \in StatusKeys : WF_vars(TimerFires(p))

\* ------------------------------------------------- the synchronous functions
\* a call of extractLatexFromResponse(response); the functions keep no state
\* of their own, so one call in a behaviour shows them all
Extract(response) ==
  /\ io = NoIo
  /\ io' = [fn |-> "extractLatexFromResponse", response |-> response,
            result |-> extractLatexFromResponse(response)]
  /\ UNCHANGED <<apiKeys, providerStatus, totalTokensUsed, timers, req, faults>>

\* a call of getAvailableModels(userTier): it reads providerStatus and the
\* provider tables and assigns nothing but its local list
GetAvailableModels(userTier) ==
  /\ io = NoIo
  /\ io' = [fn |-> "getAvailableModels", userTier |-> userTier,
            result |-> getAvailableModels(userTier)]
  /\ UNCHANGED <<apiKeys, providerStatus, totalTokensUsed, timers, req, faults>>

\* a call of preparePrompt(content, documentType, options): it reads and
\* assigns no state of the module
PreparePrompt(content, documentType, options) ==
  /\ io = NoIo
  /\ io' = [fn |-> "preparePrompt", content |-> content,
            documentType |-> documentType, options |-> options,
            result |-> preparePrompt(content, documentType, options)]
  /\ UNCHANGED <<apiKeys, providerStatus, totalTokensUsed, timers, req, faults>>

\* the extractor called on its own, on every text; it reads no state
InitExtract == InitFor(SeqRequests, {{}})

NextExtract == \E t \in AllTexts : Extract(t)

SpecExtract == InitExtract /\ [][NextExtract]_vars

\* the prompt preparation called on its own, on every content, document type
\* and options
InitPrompt == InitFor(SeqRequests, {{}})

NextPrompt ==
  \E c \in PromptContents, d \in DocumentTypes, o \in PromptOptions :
    PreparePrompt(c, d, o)

SpecPrompt == InitPrompt /\ [][NextPrompt]_vars

\* the model listing called on its own, under every configuration of keys
InitModels == InitFor(SeqRequests, SUBSET StatusKeys)

NextModels == \E tier \in Tiers : GetAvailableModels(tier)

SpecModels == InitModels /\ [][NextModels]_vars

\* ===================================================================== claims
IndexOf(seq, x) == Min({i \in 1..Len(seq) : seq[i] = x})

\* the chain calls of slot r that failed in the current step
NewlyFailedChain(r) ==
  {i \in 1..Len(req'[r].calls) :
     /\ req'[r].calls[i].via = "chain"
     /\ req'[r].calls[i].out = "failed"
     /\ (i > Len(req[r].calls) \/ req[r].calls[i].out = "pending")}

\* after the failed chain call i of slot r: the next provider of the chain
\* that is available and not rate-limited has been called, or there is none
\* and the request has returned the failure result
ChainGoesOn(r, i) ==
  LET rq == req'[r]
      pos == IndexOf(rq.chain, rq.calls[i].provider)
      later == {j \in (pos + 1)..Len(rq.chain) : ~Skipped(providerStatus', rq.chain[j])}
  IN IF later = {}
     THEN i = Len(rq.calls) /\ rq.pc = "done" /\ ~rq.result.success
     ELSE /\ i < Len(rq.calls)
          /\ rq.calls[i + 1].via = "chain"
          /\ rq.calls[i + 1].provider = rq.chain[Min(later)]

\* C1: in generateLatex and modifyLatex a failure of a chain provider, of any
\* kind, never ends the request: the next provider of the chain that is
\* available and not rate-limited is attempted, in priority order, until one
\* succeeds or the chain is exhausted.
C1_ChainContinuesAfterFailure ==
  [][\A r \in DOMAIN req : \A i \in NewlyFailedChain(r) : ChainGoesOn(r, i)]_vars

\* a request that succeeded on its third chain provider after two had failed
C1_Witness ==
  \E r \in DOMAIN req :
    /\ req[r].pc = "done" /\ req[r].result.success
    /\ Len(req[r].calls) = 3
    /\ \A i \in 1..3 : req[r].calls[i].via = "chain"
    /\ req[r].calls[1].out = "failed" /\ req[r].calls[2].out = "failed"
    /\ req[r].calls[3].out = "ok"

\* at most one provider call of slot r is in flight, and it is the latest one
OneAtATime(r) ==
  \A i \in 1..Len(req[r].calls) :
    req[r].calls[i].out = "pending" => i = Len(req[r].calls) /\ req[r].pc = "netcall"

\* a successful call of slot r is its last call, and the request has returned
\* success with the LaTeX given by of(LaTeX of that call)
SuccessEnds(r, of(_)) ==
  \A i \in 1..Len(req[r].calls) :
    req[r].calls[i].out = "ok" =>
      /\ i = Len(req[r].calls)
      /\ req[r].pc = "done"
      /\ req[r].result = Success(of(req[r].calls[i].latex))

SameLatex(t) == t

\* C2 as stated: providers are attempted one at a time, and the first
\* successful provider call ends the request: generateLatex and modifyLatex
\* return success with the LaTeX of that call and call no further provider.
C2_FirstSuccessReturnsItsLatex ==
  \A r \in DOMAIN req : OneAtATime(r) /\ SuccessEnds(r, SameLatex)

\* C2, amended: providers are attempted one at a time, and the first
\* successful provider call ends the request with no further provider call;
\* generateLatex returns success with the LaTeX of that call, modifyLatex
\* returns success with the extractor applied once more to that LaTeX.
C2_FirstSuccessEndsRequest ==
  \A r \in DOMAIN req :
    /\ OneAtATime(r)
    /\ IF req[r].kind = "modify"
       THEN SuccessEnds(r, extractLatexFromResponse)
       ELSE SuccessEnds(r, SameLatex)

\* a modifyLatex request that succeeded on a chain provider after an earlier
\* call had failed, and returned a LaTeX other than the one of the call
C2_Witness ==
  \E r \in DOMAIN req :
    /\ req[r].kind = "modify" /\ req[r].pc = "done" /\ req[r].result.success
    /\ Len(req[r].calls) >= 2
    /\ req[r].calls[Len(req[r].calls)].out = "ok"
    /\ req[r].result.latex # req[r].calls[Len(req[r].calls)].latex

OverrideFailsNow(r) ==
  /\ req'[r].calls # <<>>
  /\ req'[r].calls[1].via = "override"
  /\ req'[r].calls[1].out = "failed"
  /\ (req[r].calls = <<>> \/ req[r].calls[1].out = "pending")

\* slot r has gone to the chain as a request without an explicit model does:
\* the chain of the selector, its first provider that is available and not
\* rate-limited called with its default model, or the failure result
ChainStarted(r) ==
  LET rq == req'[r]
      eligible == {j \in 1..Len(rq.chain) : ~Skipped(providerStatus', rq.chain[j])}
  IN /\ rq.chain = determineProviderChain'
     /\ IF eligible = {}
        THEN Len(rq.calls) = 1 /\ rq.pc = "done" /\ rq.result = Failure(rq.kind)
        ELSE /\ Len(rq.calls) >= 2
             /\ rq.calls[2].via = "chain"
             /\ rq.calls[2].provider = rq.chain[Min(eligible)]
             /\ rq.calls[2].model = models[rq.calls[2].provider][1]

\* C4: when the call with the explicit model fails, for any reason (an
\* unknown model included), the failure is swallowed: the function walks the
\* provider chain as it does without an explicit model, and a success there is
\* a success of the request.
C4_OverrideFailureFallsThrough ==
  /\ [][\A r \in DOMAIN req : OverrideFailsNow(r) => ChainStarted(r)]_vars
  /\ [](\A r \in DOMAIN req :
          (/\ req[r].calls # <<>>
           /\ req[r].calls[1].via = "override"
           /\ \E i \in 2..Len(req[r].calls) : req[r].calls[i].out = "ok")
          => req[r].pc = "done" /\ req[r].result.success)

\* a request whose explicit model failed on the network and that a chain
\* provider then served
C4_Witness ==
  \E r \in DOMAIN req :
    /\ req[r].pc = "done" /\ req[r].result.success
    /\ Len(req[r].calls) >= 2
    /\ req[r].calls[1].via = "override" /\ req[r].calls[1].net
    /\ req[r].calls[1].out = "failed"
    /\ req[r].calls[Len(req[r].calls)].via = "chain"
    /\ req[r].calls[Len(req[r].calls)].out = "ok"

\* C5 as stated: the explicit model is not retried: after the call with the
\* explicit model M has failed, the chain walk of the same request never
\* calls an adapter with the model M again.
C5_OverrideModelNotRetried ==
  \A r \in DOMAIN req :
    (req[r].calls # <<>> /\ req[r].calls[1].via = "override")
    => \A i \in 2..Len(req[r].calls) : req[r].calls[i].model # req[r].calls[1].model

\* C6: in every reachable state the chain selector returns no provider whose
\* availability is false, and no chain walk calls the adapter of such a
\* provider.
C6_UnavailableNeverInChain ==
  /\ \A p \in Range(determineProviderChain) : providerStatus[p].available
  /\ \A r \in DOMAIN req :
       /\ \A p \in Range(req[r].chain) : providerStatus[p].available
       /\ \A i \in 1..Len(req[r].calls) :
            req[r].calls[i].via = "chain"
            => providerStatus[req[r].calls[i].provider].available

\* some provider of the priority list is unavailable, and a request has
\* called a provider of its chain
C6_Witness ==
  /\ \E p \in Range(defaultChain) : ~providerStatus[p].available
  /\ \E r \in DOMAIN req :
       /\ Len(req[r].chain) < Len(defaultChain)
       /\ \E i \in 1..Len(req[r].calls) :
            req[r].calls[i].via = "chain" /\ req[r].calls[i].net

C8_SelectorCompleteOrdered ==
  /\ Range(determineProviderChain) =
       {p \in StatusKeys : providerStatus[p].available /\ ~providerStatus[p].rateLimited}
  /\ \A i, j \in 1..Len(determineProviderChain) :
       i < j => IndexOf(defaultChain, determineProviderChain[i])
                  < IndexOf(defaultChain, determineProviderChain[j])

\* C9 as stated, its exclusion half: after a chain call to provider P has
\* failed with a rate-limit error in generateLatex, no chain walk issues a
\* call to P within the 5 minutes that follow.
C9_NoChainCallDuringCooldown ==
  \A r \in DOMAIN req : \A i \in 1..Len(req[r].calls) :
    (req[r].calls[i].via = "chain" /\ req[r].calls[i].net) => ~req[r].calls[i].cooling

\* C10 as stated: while the rateLimited flag of provider P is true, no
\* request of any kind, with or without an explicit model, starts a call to
\* P.
C10_NoCallWhileRateLimited ==
  \A r \in DOMAIN req : \A i \in 1..Len(req[r].calls) :
    req[r].calls[i].net => ~req[r].calls[i].limited

\* the errors that count as rate limiting: HTTP status 429, or a message that
\* contains the words rate limit
RateLimitErrors == {"http429", "ratelimitmsg"}

\* the failed chain call i of slot r has been recorded on its provider: the
\* error as lastError, and rateLimited set for a rate-limit error
FailureRecorded(r, i) ==
  LET c == req'[r].calls[i]
  IN /\ providerStatus'[c.provider].lastError = c.err
     /\ c.err \in RateLimitErrors => providerStatus'[c.provider].rateLimited

\* C11: in the chain walk of generateLatex every failed provider call sets
\* lastError of that provider to the error, and sets its rateLimited flag to
\* true if and only if the error has status 429 or a message containing rate
\* limit; any other failure, budget-exceeded included, leaves rateLimited as
\* it was, so that the next request tries the provider again.
C11_GenerateRecordsFailures ==
  [][\A r \in DOMAIN req : \A i \in NewlyFailedChain(r) :
       req'[r].kind = "generate" =>
         /\ FailureRecorded(r, i)
         /\ req'[r].calls[i].err \notin RateLimitErrors =>
              providerStatus'[req'[r].calls[i].provider].rateLimited
                = providerStatus[req'[r].calls[i].provider].rateLimited]_vars

\* a generateLatex request with a chain call rejected on the budget, whose
\* provider is not rate-limited, and a chain call failed with 429, whose
\* provider is
C11_Witness ==
  \E r \in DOMAIN req : \E i, j \in 1..Len(req[r].calls) :
    /\ req[r].kind = "generate"
    /\ req[r].calls[i].via = "chain" /\ req[r].calls[i].err = "budget"
    /\ providerStatus[req[r].calls[i].provider].lastError = "budget"
    /\ ~providerStatus[req[r].calls[i].provider].rateLimited
    /\ req[r].calls[j].via = "chain" /\ req[r].calls[j].err = "http429"
    /\ providerStatus[req[r].calls[j].provider].lastError = "http429"
    /\ providerStatus[req[r].calls[j].provider].rateLimited

\* C12 as stated, its bookkeeping half: modifyLatex runs the state machine of
\* generateLatex and leaves the same provider runtime state: a chain provider
\* that fails during modifyLatex gets lastError recorded, and is marked
\* rateLimited when the failure is a 429.
C12_ModifyRecordsFailures ==
  [][\A r \in DOMAIN req : \A i \in NewlyFailedChain(r) :
       req'[r].kind = "modify" => FailureRecorded(r, i)]_vars

\* C13 as stated: a 429, or a rate limit message, received on the call of the
\* explicit model marks that provider rateLimited, so that the chain walk of
\* the same request skips it.
C13_OverrideRateLimitMarks ==
  [][\A r \in DOMAIN req :
       (OverrideFailsNow(r) /\ req'[r].calls[1].err \in RateLimitErrors)
       => /\ providerStatus'[req'[r].calls[1].provider].rateLimited
          /\ \A i \in 2..Len(req'[r].calls) :
               req'[r].calls[i].provider # req'[r].calls[1].provider]_vars

\* the calls that slot r has made in the current step
NewCalls(r) == (Len(req[r].calls) + 1)..Len(req'[r].calls)

\* C14: a call of the Groq adapter whose estimated token cost added to the
\* tokens already used exceeds the ceiling fails with the budget error before
\* any network call is issued, and leaves the token counter as it is.
C14_GroqBudgetRejectsBeforeNetwork ==
  [][\A r \in DOMAIN req : \A i \in NewCalls(r) :
       LET c == req'[r].calls[i]
           over == totalTokensUsed'
                     + (CeilTimes13(SystemPromptWords) + CeilTimes13(PromptWords) + 4000)
                   > 1000000
       IN (c.provider = "groq" /\ "groq" \in apiKeys) =>
            /\ over => (c.err = "budget" /\ ~c.net /\ c.out = "failed")
            /\ ~over => c.net
            /\ c.err = "budget" =>
                 \/ totalTokensUsed' = totalTokensUsed
                 \/ req[r].pc = "netcall" /\ req[r].provider = "groq"]_vars

\* a call to Groq rejected on the budget, without a network call, while the
\* counter is below the ceiling
C14_Witness ==
  /\ totalTokensUsed > 0 /\ totalTokensUsed < MAX_TOKENS
  /\ \E r \in DOMAIN req : \E i \in 1..Len(req[r].calls) :
       /\ req[r].calls[i].provider = "groq"
       /\ req[r].calls[i].err = "budget"
       /\ ~req[r].calls[i].net

\* the providers whose call by slot r has ended in the current step
JustCalled(r) ==
  {req'[r].calls[i].provider : i \in
     {n \in 1..Len(req'[r].calls) :
        /\ req'[r].calls[n].out # "pending"
        /\ (n > Len(req[r].calls) \/ req[r].calls[n].out = "pending")}}

\* C15: a generateLatex or modifyLatex request changes the runtime state
\* (rateLimited, lastError, the cool-down timers, the token counter) only of a
\* provider whose adapter the same request has just invoked; every other
\* provider is left as it was, on success, on failure and on the
\* short-circuit paths.
C15_OnlyCalledProviderChanges ==
  [][\A r \in DOMAIN req :
       req'[r] # req[r] =>
         /\ \A p \in StatusKeys :
              (providerStatus'[p] # providerStatus[p] \/ timers'[p] # timers[p])
              => p \in JustCalled(r)
         /\ totalTokensUsed' # totalTokensUsed => "groq" \in JustCalled(r)]_vars

\* a generateLatex request whose first chain provider failed and was
\* recorded, and whose second chain provider served it and is untouched
C15_Witness ==
  \E r \in DOMAIN req :
    /\ req[r].kind = "generate" /\ req[r].pc = "done" /\ Len(req[r].calls) = 2
    /\ req[r].calls[1].via = "chain" /\ req[r].calls[1].net
    /\ req[r].calls[1].out = "failed"
    /\ providerStatus[req[r].calls[1].provider].lastError = req[r].calls[1].err
    /\ req[r].calls[2].out = "ok"
    /\ providerStatus[req[r].calls[2].provider].lastError = "null"
    /\ ~providerStatus[req[r].calls[2].provider].rateLimited

\* slot r has been called as modifyLatex in the current step, with isOmit
\* true, notes that mention a date, and LaTeX with \maketitle and no \date{
DateOmissionCall(r) ==
  /\ req[r].pc = "idle"
  /\ req'[r].args.fn = "modifyLatex"
  /\ req'[r].args.isOmit /\ req'[r].args.notesDate
  /\ \E i \in 1..Len(req'[r].args.latexContent) : req'[r].args.latexContent[i] = "MAKETITLE"
  /\ \A i \in 1..Len(req'[r].args.latexContent) : req'[r].args.latexContent[i] # "DATE"

\* slot r has returned success with its input LaTeX changed only by the
\* tokens ins put before the first \maketitle, no adapter invoked, no
\* provider runtime state changed
DateInserted(r, ins) ==
  LET doc == req'[r].args.latexContent
  IN /\ req'[r].pc = "done"
     /\ req'[r].calls = <<>>
     /\ req'[r].result.success /\ req'[r].result.error = "none"
     /\ \E i \in 1..Len(doc) :
          /\ doc[i] = "MAKETITLE"
          /\ \A k \in 1..(i - 1) : doc[k] # "MAKETITLE"
          /\ req'[r].result.latex = SubSeq(doc, 1, i - 1) \o ins \o SubSeq(doc, i, Len(doc))
     /\ UNCHANGED <<providerStatus, totalTokensUsed, timers>>

\* C16 as stated: modifyLatex called with isOmit true, notes that mention a
\* date, and LaTeX with \maketitle and no \date{ returns success with the
\* input changed only by \date{} inserted immediately before the first
\* \maketitle, without invoking any adapter (not even for an explicit model)
\* and without changing any provider runtime state.
C16_DateInsertedOnly ==
  [][\A r \in DOMAIN req :
       DateOmissionCall(r) => DateInserted(r, <<"DATE", "RBRACE">>)]_vars

\* C16, amended: in that case modifyLatex returns success with the input
\* changed only by \date{} and a newline inserted before the first
\* \maketitle, without invoking any adapter (not even for an explicit model)
\* and without changing any provider runtime state.
C16_DateAndNewlineInserted ==
  [][\A r \in DOMAIN req :
       DateOmissionCall(r) => DateInserted(r, <<"DATE", "RBRACE", "WS">>)]_vars

\* a date omission with an explicit model, on LaTeX with two \maketitle, that
\* has returned without a provider call
C16_Witness ==
  \E r \in DOMAIN req :
    /\ req[r].args.fn = "modifyLatex"
    /\ req[r].args.isOmit /\ req[r].args.notesDate
    /\ req[r].args.model \in AllModels
    /\ Cardinality(Positions(req[r].args.latexContent, "MAKETITLE")) = 2
    /\ req[r].pc = "done" /\ req[r].result.success /\ req[r].calls = <<>>

\* the total order of the tiers: Free < Basic < Pro < Power
TierRank == [Free |-> 0, Basic |-> 1, Pro |-> 2, Power |-> 3]

ListedIds(list) == {list[i].id : i \in 1..Len(list)}

\* the models of the providers with availability true whose tier is at or
\* below tier
ModelsAtOrBelow(tier) ==
  {m \in AllModels :
     /\ TierRank[modelTier[m]] <= TierRank[tier]
     /\ \E p \in Providers : m \in Range(models[p]) /\ providerStatus[p].available}

\* C17: getAvailableModels(tier) is a pure query: for each of the four tiers
\* it returns exactly the models of the providers with availability true
\* whose minimum tier is at or below the tier of the caller, so the result of
\* a lower tier is a subset of the result of any higher tier and no model of
\* an unavailable provider is listed, and it changes no provider runtime
\* state.
C17_ModelsByTier ==
  /\ [](io.fn = "getAvailableModels" =>
          /\ ListedIds(io.result) = ModelsAtOrBelow(io.userTier)
          /\ Len(io.result) = Cardinality(ListedIds(io.result))
          /\ \A i \in 1..Len(io.result) :
               /\ io.result[i].id \in Range(models[io.result[i].provider])
               /\ providerStatus[io.result[i].provider].available
               /\ io.result[i].tier = modelTier[io.result[i].id]
          /\ \A t \in Tiers :
               TierRank[t] <= TierRank[io.userTier]
               => ListedIds(getAvailableModels(t)) \subseteq ListedIds(io.result))
  /\ [][io'.fn = "getAvailableModels" =>
          UNCHANGED <<apiKeys, providerStatus, totalTokensUsed, timers, req>>]_vars

\* a Basic caller has got a list with some models, while an available
\* provider has a model above Basic and some provider is unavailable
C17_Witness ==
  /\ io.fn = "getAvailableModels" /\ io.userTier = "Basic"
  /\ io.result # <<>>
  /\ \E p \in Providers : ~providerStatus[p].available
  /\ \E p \in Providers : \E m \in Range(models[p]) :
       /\ providerStatus[p].available
       /\ modelTier[m] \in {"Pro", "Power"}
       /\ m \notin ListedIds(io.result)

\* C18: a missing credential is never an error for the caller and never
\* causes traffic: on every path, chain walk or explicit model, no network
\* call is issued to a provider whose credential is absent, and generateLatex
\* and modifyLatex do not throw because of it; availability is fixed at
\* process start from the presence of the credential and never changes.
C18_MissingCredentialNoTraffic ==
  /\ [](/\ \A p \in StatusKeys : providerStatus[p].available = (p \in apiKeys)
        /\ \A r \in DOMAIN req :
             /\ \A i \in 1..Len(req[r].calls) :
                  /\ req[r].calls[i].net => req[r].calls[i].provider \in apiKeys
                  /\ (req[r].calls[i].provider \in StatusKeys \ apiKeys)
                     => /\ req[r].calls[i].err = "notconfigured"
                        /\ req[r].calls[i].out = "failed"
                        /\ (i < Len(req[r].calls) \/ req[r].pc = "done")
             /\ (req[r].pc = "done" /\ ~req[r].result.success)
                => req[r].result.error \in
                     {GenerateFailedMessage, ModifyFailedMessage, NullOptionsMessage})
  /\ [][/\ apiKeys' = apiKeys
        /\ \A p \in StatusKeys :
             providerStatus'[p].available = providerStatus[p].available]_vars

\* a request whose explicit model belongs to a provider without credential,
\* served by a chain provider afterwards
C18_Witness ==
  \E r \in DOMAIN req :
    /\ req[r].pc = "done" /\ req[r].result.success
    /\ Len(req[r].calls) >= 2
    /\ req[r].calls[1].via = "override"
    /\ req[r].calls[1].provider \in StatusKeys \ apiKeys
    /\ req[r].calls[1].err = "notconfigured" /\ ~req[r].calls[1].net

ProperSuccess(res) == res.success /\ res.latex # NoLatex /\ res.error = "none"

ProperFailure(res) == ~res.success /\ res.error # "none" /\ res.latex = NoLatex

\* C19 as stated: there is no partial success: every result returned by
\* generateLatex or modifyLatex is either success with LaTeX text and no
\* error, or a failure with an error message and no LaTeX text.
C19_NoPartialSuccess ==
  \A r \in DOMAIN req :
    req[r].pc = "done" => ProperSuccess(req[r].result) \/ ProperFailure(req[r].result)

\* C19, amended: every result is either success with LaTeX text and no error,
\* or a failure with an error message; a failure carries no LaTeX text, except
\* that modifyLatex, when an exception reaches its outer catch, returns the
\* message of the exception together with its input LaTeX, unchanged.
C19_FailureMayCarryInput ==
  \A r \in DOMAIN req :
    req[r].pc = "done" =>
      \/ ProperSuccess(req[r].result)
      \/ ProperFailure(req[r].result)
      \/ /\ req[r].kind = "modify" /\ req[r].calls = <<>>
         /\ ~req[r].result.success
         /\ req[r].result.error \notin {"none", GenerateFailedMessage, ModifyFailedMessage}
         /\ req[r].result.latex = req[r].args.latexContent

\* a modifyLatex call that failed in its outer catch and returned its input
C19_Witness ==
  \E r \in DOMAIN req :
    /\ req[r].kind = "modify" /\ req[r].pc = "done"
    /\ ~req[r].result.success
    /\ req[r].result.error = NullOptionsMessage
    /\ req[r].result.latex = req[r].args.latexContent

\* the positions at which a fenced block tagged latex opens in t and is
\* closed further on
LatexBlocks(t) ==
  {i \in 1..Len(t) :
     /\ MatchesAt(t, <<"FENCE", "LATEX">>, i)
     /\ \E j \in (i + 2)..Len(t) : t[j] = "FENCE"}

\* the contents of the first fenced block tagged latex of t
FirstLatexBlock(t) ==
  LET i == Min(LatexBlocks(t))
      j == Min({n \in (i + 2)..Len(t) : t[n] = "FENCE"})
  IN SubSeq(t, i + 2, j - 1)

\* C20 as stated: for every model text that contains a fenced block tagged
\* latex the extractor returns exactly the trimmed contents of the first such
\* block, whatever surrounds it and whatever it contains, an empty block
\* included.
C20_LatexBlockContents ==
  (io.fn = "extractLatexFromResponse" /\ LatexBlocks(io.response) # {})
  => io.result = Trim(FirstLatexBlock(io.response))

\* the positions at which a fenced block opens in t and is closed further on
FencedBlocks(t) ==
  {i \in 1..Len(t) : t[i] = "FENCE" /\ \E j \in (i + 1)..Len(t) : t[j] = "FENCE"}

\* the contents of the first fenced block of t
FirstFencedBlock(t) ==
  LET i == Min(FencedBlocks(t))
      j == Min({n \in (i + 1)..Len(t) : t[n] = "FENCE"})
  IN SubSeq(t, i + 1, j - 1)

\* t has a \documentclass with an \end{document} after the first one
HasDocumentSpan(t) ==
  /\ Positions(t, "DOCCLASS") # {}
  /\ \E j \in Positions(t, "ENDDOC") : j > Min(Positions(t, "DOCCLASS"))

\* from the first \documentclass of t through the first \end{document} after it
DocumentSpan(t) ==
  LET a == Min(Positions(t, "DOCCLASS"))
  IN SubSeq(t, a, Min({j \in Positions(t, "ENDDOC") : j > a}))

\* from the first \documentclass of t to its end
FromDocumentClass(t) == SubSeq(t, Min(Positions(t, "DOCCLASS")), Len(t))

\* the result of the first applicable of the five rules, alone
FirstApplicableRule(t) ==
  IF LatexBlocks(t) # {} THEN Trim(FirstLatexBlock(t))
  ELSE IF FencedBlocks(t) # {} THEN Trim(FirstFencedBlock(t))
  ELSE IF HasDocumentSpan(t) THEN Trim(DocumentSpan(t))
  ELSE IF Positions(t, "DOCCLASS") # {} THEN Trim(FromDocumentClass(t))
  ELSE Trim(t)

\* C21 as stated: the five rules of the extractor are strict fallbacks in
\* their order, never combined: the result is that of the first applicable
\* rule alone; when a fenced block exists its trimmed contents are returned,
\* even if a \documentclass ... \end{document} span occurs elsewhere.
C21_FirstApplicableRuleAlone ==
  io.fn = "extractLatexFromResponse" => io.result = FirstApplicableRule(io.response)

\* C22: for a text without fences that has \documentclass and, later,
\* \end{document}, the extractor returns exactly the span from the first
\* \documentclass through the first \end{document} after it, and drops the
\* text before and after.
C22_DocumentSpan ==
  (/\ io.fn = "extractLatexFromResponse"
   /\ Positions(io.response, "FENCE") = {}
   /\ HasDocumentSpan(io.response))
  => /\ io.result = DocumentSpan(io.response)
     /\ io.result[1] = "DOCCLASS" /\ io.result[Len(io.result)] = "ENDDOC"
     /\ Cardinality(Positions(io.result, "ENDDOC")) = 1

\* a span taken out of a text with other text before it, after it, and a
\* second \end{document}
C22_Witness ==
  /\ io.fn = "extractLatexFromResponse"
  /\ io.response = <<"x", "DOCCLASS", "ENDDOC", "x", "ENDDOC">>
  /\ io.result = <<"DOCCLASS", "ENDDOC">>

\* C23: for a text without fences that has \documentclass and no
\* \end{document} after it, the extractor returns the text from the first
\* \documentclass to the end, trimmed; for a text with neither fences nor
\* \documentclass it returns the whole text, trimmed.
C23_TailOrWholeText ==
  (io.fn = "extractLatexFromResponse" /\ Positions(io.response, "FENCE") = {})
  => /\ (Positions(io.response, "DOCCLASS") # {} /\ ~HasDocumentSpan(io.response))
        => io.result = Trim(FromDocumentClass(io.response))
     /\ Positions(io.response, "DOCCLASS") = {} => io.result = Trim(io.response)

\* a text with an \end{document} only before its \documentclass, cut at the
\* \documentclass and trimmed
C23_Witness ==
  /\ io.fn = "extractLatexFromResponse"
  /\ io.response = <<"ENDDOC", "DOCCLASS", "x", "WS">>
  /\ io.result = <<"DOCCLASS", "x">>

\* C29 as stated: the extractor is idempotent: applied to its own output it
\* returns that output unchanged, for every text.
C29_ExtractorIdempotent ==
  io.fn = "extractLatexFromResponse" => extractLatexFromResponse(io.result) = io.result

\* the extractor has nothing left to strip from t: no fence, and no
\* \documentclass, or \documentclass at the head and no \end{document} before
\* the end
Clean(t) ==
  /\ Positions(t, "FENCE") = {}
  /\ \/ Positions(t, "DOCCLASS") = {}
     \/ /\ t[1] = "DOCCLASS"
        /\ \A j \in Positions(t, "ENDDOC") : j = Len(t)

\* C29, amended: the extractor is idempotent on its clean outputs only:
\* applied to an output that has no fence and either no \documentclass or
\* \documentclass at its head and no \end{document} before its end, it
\* returns that output unchanged; any other output it can shorten.
C29_IdempotentOnCleanOutput ==
  (io.fn = "extractLatexFromResponse" /\ Clean(io.result))
  => extractLatexFromResponse(io.result) = io.result

\* a clean output that is a proper part of the text it was extracted from
C29_Witness ==
  /\ io.fn = "extractLatexFromResponse"
  /\ Clean(io.result)
  /\ io.result # <<>> /\ Len(io.result) < Len(io.response)
  /\ io.result[1] = "DOCCLASS"
  /\ Positions(io.result, "ENDDOC") = {}

\* C24: when the content includes all six markers, generateLatex returns
\* success with the fixed pre-baked LaTeX at once: no adapter is invoked (the
\* model override is not attempted either) and providerStatus, the token
\* counter and the timers are left as they were.
C24_MarkersBypassProviders ==
  [][\A r \in DOMAIN req :
       (/\ req[r].pc = "idle"
        /\ req'[r].args.fn = "generateLatex"
        /\ Markers \subseteq req'[r].args.content.markers)
       => /\ req'[r].pc = "done"
          /\ req'[r].result = Success(FORMATTED_CREDIT_CARD_LATEX)
          /\ req'[r].calls = <<>>
          /\ UNCHANGED <<providerStatus, totalTokensUsed, timers>>]_vars

C24_Witness ==
  \E r \in DOMAIN req :
    /\ req[r].args.fn = "generateLatex"
    /\ Markers \subseteq req[r].args.content.markers
    /\ req[r].args.model \in OverrideModels \ {"none"}
    /\ apiKeys # {}
    /\ req[r].pc = "done"
    /\ req[r].result = Success(FORMATTED_CREDIT_CARD_LATEX)
    /\ req[r].calls = <<>>

\* the content of the latest preparePrompt call is detected as LaTeX and is
\* not the special assignment
LatexDetected(c) == isLaTeXDocument(c) /\ ~isSpecialCreditCardAssignment(c)

\* the content goes into a composed prompt
Composed(c) == ~isLaTeXDocument(c) /\ ~isSpecialCreditCardAssignment(c)

\* the prompt for LaTeX-detected content is the fixed one, the same as for any
\* other LaTeX-detected content, document type and options
FixedPromptForLatex ==
  (io.fn = "preparePrompt" /\ LatexDetected(io.content))
  => /\ ~io.result.bypassed
     /\ io.result.prompt = CREDIT_CARD_VALIDATION_PROMPT
     /\ \A c \in PromptContents, d \in DocumentTypes, o \in PromptOptions :
          LatexDetected(c) => preparePrompt(c, d, o).prompt = io.result.prompt

\* C30 as stated: the prompt for LaTeX-detected content is fixed, and for all
\* other content the prompt contains the content and the document type.
C30_PromptFixedOrVerbatim ==
  /\ FixedPromptForLatex
  /\ (io.fn = "preparePrompt" /\ Composed(io.content))
     => /\ io.result.prompt.userContent = io.content
        /\ io.result.prompt.documentType = io.documentType

\* C30: the prompt for LaTeX-detected content is the fixed credit-card prompt
\* whatever the content, document type and options; for all other content
\* that is not the special assignment the prompt contains the document type
\* verbatim and the content verbatim, except that empty or blank content is
\* replaced by the fixed example sentence.
C30_PromptFixedOrVerbatimUnlessBlank ==
  /\ FixedPromptForLatex
  /\ (io.fn = "preparePrompt" /\ Composed(io.content))
     => /\ io.result.prompt.documentType = io.documentType
        /\ io.result.prompt.userContent =
             IF io.content.blank THEN ExampleContent ELSE io.content

C30_Witness ==
  /\ io.fn = "preparePrompt"
  /\ LatexDetected(io.content)
  /\ io.content.id = "b"
  /\ io.content.markers # {}
  /\ io.documentType = "report"
  /\ io.options.splitTables = "true"
  /\ io.result.prompt = CREDIT_CARD_VALIDATION_PROMPT

\* C25: a rateLimited flag that is true stays true until a cool-down timer of
\* that provider fires, whatever else happens, and with the timers firing it
\* becomes false again: no provider stays rate-limited forever.
C25_LimitedUntilTimerFires ==
  /\ [][\A p \in StatusKeys :
         (providerStatus[p].rateLimited /\ ~providerStatus'[p].rateLimited)
         => /\ timers[p] # <<>> /\ Head(timers[p]) = 0
            /\ timers'[p] = Tail(timers[p])]_vars
  /\ \A p \in StatusKeys :
       providerStatus[p].rateLimited ~> ~providerStatus[p].rateLimited

\* a provider that is rate-limited while a later request has succeeded
C25_Witness ==
  \E p \in StatusKeys, r \in DOMAIN req :
    /\ providerStatus[p].rateLimited
    /\ timers[p] # <<>>
    /\ req[r].pc = "done" /\ req[r].result.success
    /\ \A i \in 1..Len(req[r].calls) : req[r].calls[i].err # "http429"

\* C26: the token counter of Groq never exceeds its ceiling, for any number
\* of concurrent requests and any usage the provider reports.
C26_CounterWithinCeiling == totalTokensUsed <= MAX_TOKENS

\* C28: the token counter of Groq never decreases and a 429 from Groq sets
\* it to the ceiling; after one 429 from Groq no later call of the Groq
\* adapter issues a network call, also once the cool-down is over.
C28_GroqCounterMonotone ==
  [][/\ totalTokensUsed' >= totalTokensUsed
     /\ \A r \in DOMAIN req :
          (/\ req[r].pc = "netcall" /\ req[r].provider = "groq"
           /\ Len(req'[r].calls) >= Len(req[r].calls)
           /\ req'[r].calls[Len(req[r].calls)].err = "http429")
          => totalTokensUsed' = MAX_TOKENS
     /\ \A r \in DOMAIN req :
          (totalTokensUsed >= MAX_TOKENS /\ Len(req'[r].calls) > Len(req[r].calls))
          => \A i \in (Len(req[r].calls) + 1)..Len(req'[r].calls) :
               req'[r].calls[i].provider = "groq" => ~req'[r].calls[i].net]_vars

\* C27: with concurrent requests a provider stays excluded until 5 minutes
\* after its most recent 429: the timer of an earlier 429 never clears the
\* flag while the window of a later 429 is still running.
C27_EarlierTimerKeepsLaterWindow ==
  [][\A p \in StatusKeys :
       (providerStatus[p].rateLimited /\ ~providerStatus'[p].rateLimited)
       => \A i \in 1..Len(timers'[p]) : timers'[p][i] = 0]_vars

====
